---- MODULE Spec2Model ----
(***************************************************************************)
(* Model of the AWD suitability core of MyTran-GitHub/AWD-policy:          *)
(*   src/src/water_balance/__init__.py          dekad suitability, index,  *)
(*                                              classification, sweep      *)
(*   src/src/utils.py                           classify_awd_suitability   *)
(*   src/src/biophysical_constraints/__init__.py composite feasibility,    *)
(*                                              drainage, slope            *)
(*   src/src/spatial_analysis/__init__.py       patches, clusters, cost    *)
(*   src/scripts/run_pipeline.py                validation and run         *)
(*                                                                         *)
(* The functions are pure.  The state is the call in progress (op, args)   *)
(* and what it returned (ret); a caller that is idle (op = "none") makes   *)
(* one call, with arguments drawn from bounded sets, the function is       *)
(* applied as the code computes it, and the caller takes the result and is *)
(* idle again.  The pipeline script is a second state machine, one step of *)
(* AWDPipeline.run per action (PipelineSpec).                              *)
(*                                                                         *)
(* Numbers.  Water balances and thresholds are millimetres, modelled as    *)
(* integers.  A fraction is a pair <<n, d>> with d > 0 standing for n/d;   *)
(* the float comparisons of the code are modelled by cross-multiplication. *)
(* This is exact for the values used: a quotient of two small integers is  *)
(* never within rounding distance of 0.33 or 0.66 unless it equals the     *)
(* literal itself.                                                         *)
(***************************************************************************)
EXTENDS Integers, Sequences, FiniteSets, TLC

VARIABLES op, args, ret

\* The run of scripts/run_pipeline.py (AWDPipeline.run): the configuration,
\* the list of study areas, the step the run is at (pc), the position in the
\* list (current) and the steps taken so far for the area being processed.
VARIABLES config, study_areas, pc, current, steps

pipeline_vars == <<config, study_areas, pc, current, steps>>

vars == <<op, args, ret, config, study_areas, pc, current, steps>>

(***************************************************************************)
(* Bounds of the input sets.                                               *)
(***************************************************************************)
MaxLen        == 3   \* longest water-balance series
MaxDekad      == 4   \* largest season start / end index
MaxThresholds == 2   \* longest threshold list of a sensitivity sweep
MaxExcess     == 5   \* hundredths below 0 and above 1 handed to a classifier
MaxRows       == 3   \* most rows of a grid
MaxCols       == 2   \* most columns of a grid

\* water balances (mm): below, at and inside the bands, zero
WBVals == {-80, -60, -50, -10, 0}

\* deficit thresholds (mm, negative)
Thresholds == {-70, -50}

\* single water balances for the dekad test: the series values, a surplus,
\* and the thresholds themselves
DekadWBVals == WBVals \cup Thresholds \cup {-71, -69, -51, -49, -1, 1, 20}

RECURSIVE SeqsUpTo(_, _)
SeqsUpTo(S, n) ==
    IF n = 0 THEN {<<>>}
    ELSE LET shorter == SeqsUpTo(S, n - 1)
         IN  shorter \cup {Append(s, x) : s \in {q \in shorter : Len(q) = n - 1}, x \in S}

SeriesSet == SeqsUpTo(WBVals, MaxLen)

ThresholdLists == SeqsUpTo(Thresholds, MaxThresholds)

\* season start / end dekads handed to the index computation (used by the
\* code as 0-based positions in the series)
DekadVals == 0..MaxDekad

\* the defaults of compute_awd_suitability_index
exclude_first_default == 2
exclude_last_default  == 1

ExcludeFirstVals == {0, exclude_first_default}
ExcludeLastVals  == {0, exclude_last_default}

(***************************************************************************)
(* Fractions <<n, d>>, d > 0.                                              *)
(***************************************************************************)
Frac(n, d) == <<n, d>>

\* fractions handed to the classifiers: every hundredth from below 0 to above
\* 1, and every quotient the suitability index can return
ClassifyFractions ==
    {Frac(k, 100) : k \in (-MaxExcess)..(100 + MaxExcess)}
        \cup {Frac(n, d) : n \in 0..MaxLen, d \in 1..MaxLen}

FracZero == Frac(0, 1)

FracGE(a, b) == a[1] * b[2] >= b[1] * a[2]

FracLE(a, b) == FracGE(b, a)

FracEQ(a, b) == a[1] * b[2] = b[1] * a[2]

\* fraction * 100
FracTimes100(a) == Frac(100 * a[1], a[2])

(***************************************************************************)
(* Python slicing  s[lo:hi]  of a sequence (0-based, hi exclusive): a      *)
(* negative index counts from the end, and indices are clipped to the      *)
(* sequence, never an error.                                               *)
(***************************************************************************)
PyClip(i, n) ==
    IF i < 0 THEN (IF i + n < 0 THEN 0 ELSE i + n)
    ELSE IF i > n THEN n ELSE i

PySlice(s, lo, hi) ==
    LET l == PyClip(lo, Len(s))
        h == PyClip(hi, Len(s))
    IN  IF l < h THEN SubSeq(s, l + 1, h) ELSE <<>>

(***************************************************************************)
(* water_balance: single-dekad test                                        *)
(***************************************************************************)
assess_awd_suitability_dekad_flipped(water_balance_mm, deficit_threshold_mm) ==
    (water_balance_mm < 0) /\ (water_balance_mm <= deficit_threshold_mm)

assess_awd_suitability_dekad_open(water_balance_mm, deficit_threshold_mm) ==
    (water_balance_mm < 0) /\ (water_balance_mm > deficit_threshold_mm)

assess_awd_suitability_dekad(water_balance_mm, deficit_threshold_mm) ==
    (water_balance_mm < 0) /\ (water_balance_mm >= deficit_threshold_mm)

(***************************************************************************)
(* water_balance: suitability index over the active season                 *)
(***************************************************************************)
\* np.sum of the element-wise test over the slice
RECURSIVE CountSuitable(_, _)
CountSuitable(dekads, deficit_threshold_mm) ==
    IF dekads = <<>> THEN 0
    ELSE (IF assess_awd_suitability_dekad(Head(dekads), deficit_threshold_mm) THEN 1 ELSE 0)
         + CountSuitable(Tail(dekads), deficit_threshold_mm)

IndexResult(fraction, num_suitable, num_total, warned) ==
    [fraction |-> fraction, num_suitable |-> num_suitable,
     num_total |-> num_total, warned |-> warned, raised |-> FALSE]

compute_awd_suitability_index_strict(water_balance_series, season_start_dekad, season_end_dekad, exclude_first, exclude_last, deficit_threshold_mm) ==
    LET active_start  == season_start_dekad + exclude_first
        active_end    == season_end_dekad - exclude_last
        active_dekads == PySlice(water_balance_series, active_start, active_end + 1)
        num_suitable  == CountSuitable(active_dekads, deficit_threshold_mm)
        num_total     == Len(active_dekads)
    IN  IF active_start > active_end
        THEN IndexResult(FracZero, 0, 0, TRUE)
        ELSE IndexResult(IF num_total > 0 THEN Frac(num_suitable, num_total) ELSE FracZero,
                         num_suitable, num_total, FALSE)

compute_awd_suitability_index_halfopen(water_balance_series, season_start_dekad, season_end_dekad, exclude_first, exclude_last, deficit_threshold_mm) ==
    LET active_start  == season_start_dekad + exclude_first
        active_end    == season_end_dekad - exclude_last
        active_dekads == PySlice(water_balance_series, active_start, active_end)
        num_suitable  == CountSuitable(active_dekads, deficit_threshold_mm)
        num_total     == Len(active_dekads)
    IN  IF active_start >= active_end
        THEN IndexResult(FracZero, 0, 0, TRUE)
        ELSE IndexResult(IF num_total > 0 THEN Frac(num_suitable, num_total) ELSE FracZero,
                         num_suitable, num_total, FALSE)

compute_awd_suitability_index(water_balance_series, season_start_dekad, season_end_dekad, exclude_first, exclude_last, deficit_threshold_mm) ==
    LET active_start  == season_start_dekad + exclude_first
        active_end    == season_end_dekad - exclude_last
        active_dekads == PySlice(water_balance_series, active_start, active_end + 1)
        num_suitable  == CountSuitable(active_dekads, deficit_threshold_mm)
        num_total     == Len(active_dekads)
    IN  IF active_start >= active_end
        THEN IndexResult(FracZero, 0, 0, TRUE)
        ELSE IndexResult(IF num_total > 0 THEN Frac(num_suitable, num_total) ELSE FracZero,
                         num_suitable, num_total, FALSE)

(***************************************************************************)
(* water_balance / utils: the two classifiers                              *)
(***************************************************************************)
high_threshold_default == Frac(66, 100)

moderate_threshold_default == Frac(33, 100)

Returned(v) == [raised |-> FALSE, value |-> v]

Raised(e) == [raised |-> TRUE, error |-> e]

classify_suitability_from_fraction_strict(fraction_suitable, high_threshold, moderate_threshold) ==
    IF FracGE(fraction_suitable, high_threshold) /\ ~FracEQ(fraction_suitable, high_threshold)
    THEN 3
    ELSE IF FracGE(fraction_suitable, moderate_threshold) THEN 2
    ELSE 1

classify_suitability_from_fraction(fraction_suitable, high_threshold, moderate_threshold) ==
    IF FracGE(fraction_suitable, high_threshold) THEN 3
    ELSE IF FracGE(fraction_suitable, moderate_threshold) THEN 2
    ELSE 1

\* thresholds = None: the defaults {'high': 0.66, 'moderate': 0.33}
classify_awd_suitability(fraction_suitable) ==
    IF ~(FracLE(FracZero, fraction_suitable) /\ FracLE(fraction_suitable, Frac(1, 1)))
    THEN Raised("ValueError")
    ELSE LET thresholds == [high |-> Frac(66, 100), moderate |-> Frac(33, 100)]
         IN  IF FracGE(fraction_suitable, thresholds.high) THEN Returned(3)
             ELSE IF FracGE(fraction_suitable, thresholds.moderate) THEN Returned(2)
             ELSE Returned(1)

(***************************************************************************)
(* water_balance: threshold sensitivity sweep                              *)
(***************************************************************************)
SensitivityRow(threshold, index, suitability_class) ==
    [threshold_mm        |-> threshold,
     fraction_suitable   |-> index.fraction,
     suitability_class   |-> suitability_class,
     num_suitable_dekads |-> index.num_suitable,
     num_total_dekads    |-> index.num_total,
     percentage_suitable |-> FracTimes100(index.fraction)]

\* a sweep that keeps one row per distinct threshold
RECURSIVE analyze_threshold_sensitivity_distinct(_, _, _, _)
analyze_threshold_sensitivity_distinct(water_balance_series, season_start_dekad, season_end_dekad, thresholds) ==
    IF thresholds = <<>> THEN <<>>
    ELSE LET threshold == Head(thresholds)
             index == compute_awd_suitability_index(
                          water_balance_series, season_start_dekad, season_end_dekad,
                          exclude_first_default, exclude_last_default, threshold)
             suitability_class == classify_suitability_from_fraction(
                          index.fraction, high_threshold_default,
                          moderate_threshold_default)
             rest == analyze_threshold_sensitivity_distinct(
                          water_balance_series, season_start_dekad, season_end_dekad,
                          SelectSeq(Tail(thresholds), LAMBDA t : t # threshold))
         IN  <<SensitivityRow(threshold, index, suitability_class)>> \o rest

\* the loop over thresholds, appending one row per iteration
RECURSIVE analyze_threshold_sensitivity(_, _, _, _)
analyze_threshold_sensitivity(water_balance_series, season_start_dekad, season_end_dekad, thresholds) ==
    IF thresholds = <<>> THEN <<>>
    ELSE LET threshold == Head(thresholds)
             index == compute_awd_suitability_index(
                          water_balance_series, season_start_dekad, season_end_dekad,
                          exclude_first_default, exclude_last_default, threshold)
             suitability_class == classify_suitability_from_fraction(
                          index.fraction, high_threshold_default,
                          moderate_threshold_default)
             rest == analyze_threshold_sensitivity(
                          water_balance_series, season_start_dekad, season_end_dekad,
                          Tail(thresholds))
         IN  <<SensitivityRow(threshold, index, suitability_class)>> \o rest

(***************************************************************************)
(* biophysical_constraints: composite feasibility                          *)
(*                                                                         *)
(* A grid is a 2-D numpy array: its shape and one value per cell.  The     *)
(* operators & , <= and >= of numpy work cell by cell and broadcast: two   *)
(* dimensions are compatible when they are equal or one of them is 1, the  *)
(* array of size 1 being repeated along that dimension; incompatible       *)
(* shapes raise ValueError.                                                *)
(***************************************************************************)
Cells(r, c) == (1..r) \X (1..c)

BroadcastDim(a, b) ==
    IF a = b THEN a ELSE IF a = 1 THEN b ELSE IF b = 1 THEN a ELSE 0

BroadcastOK(A, B) ==
    BroadcastDim(A.rows, B.rows) # 0 /\ BroadcastDim(A.cols, B.cols) # 0

\* the cell of A that the broadcast puts at (i, j)
At(A, i, j) ==
    A.data[<<IF A.rows = 1 THEN 1 ELSE i, IF A.cols = 1 THEN 1 ELSE j>>]

\* A & B for compatible shapes
GridAnd(A, B) ==
    LET r == BroadcastDim(A.rows, B.rows)
        c == BroadcastDim(A.cols, B.cols)
    IN  [rows |-> r, cols |-> c,
         data |-> [p \in Cells(r, c) |-> At(A, p[1], p[2]) /\ At(B, p[1], p[2])]]

\* A <= k and A >= k against a scalar
GridLE(A, k) ==
    [rows |-> A.rows, cols |-> A.cols,
     data |-> [p \in Cells(A.rows, A.cols) |-> A.data[p] <= k]]

GridGE(A, k) ==
    [rows |-> A.rows, cols |-> A.cols,
     data |-> [p \in Cells(A.rows, A.cols) |-> A.data[p] >= k]]

drainage_threshold_default == 3

compute_biophysical_suitability_anywb(slope_feasible, drainage_class, water_balance_suitability, drainage_threshold) ==
    LET drainage_ok == GridLE(drainage_class, drainage_threshold)
        wb_ok       == GridGE(water_balance_suitability, 1)
    IN  IF ~BroadcastOK(slope_feasible, drainage_ok) THEN Raised("ValueError")
        ELSE LET slope_and_drainage == GridAnd(slope_feasible, drainage_ok)
             IN  IF ~BroadcastOK(slope_and_drainage, wb_ok) THEN Raised("ValueError")
                 ELSE Returned(GridAnd(slope_and_drainage, wb_ok))

compute_biophysical_suitability(slope_feasible, drainage_class, water_balance_suitability, drainage_threshold) ==
    LET drainage_ok == GridLE(drainage_class, drainage_threshold)
        wb_ok       == GridGE(water_balance_suitability, 2)
    IN  IF ~BroadcastOK(slope_feasible, drainage_ok) THEN Raised("ValueError")
        ELSE LET slope_and_drainage == GridAnd(slope_feasible, drainage_ok)
             IN  IF ~BroadcastOK(slope_and_drainage, wb_ok) THEN Raised("ValueError")
                 ELSE Returned(GridAnd(slope_and_drainage, wb_ok))

(***************************************************************************)
(* biophysical_constraints: drainage class from soil texture               *)
(*                                                                         *)
(* clay_pct and sand_pct are arrays of the same length (a flattened grid); *)
(* arr[mask] = v  assigns v to the cells the mask selects, leaving the     *)
(* others.  The four assignments are made one after the other on the same  *)
(* arrays.  Percolation rates are whole mm/day (12.0, 8.0, 4.0, 3.0).      *)
(***************************************************************************)
MaxPct == 100

PctArrays == {<<v>> : v \in 0..MaxPct}

MaskAssign(arr, mask, v) == [i \in DOMAIN arr |-> IF mask[i] THEN v ELSE arr[i]]

classify_drainage(clay_pct, sand_pct) ==
    LET idx    == DOMAIN clay_pct
        zeros  == [i \in idx |-> 0]
        well   == [i \in idx |-> (clay_pct[i] < 20) /\ (sand_pct[i] > 60)]
        mod    == [i \in idx |-> \/ (clay_pct[i] >= 20) /\ (clay_pct[i] < 35)
                                 \/ (sand_pct[i] >= 30) /\ (sand_pct[i] <= 60)]
        imperf == [i \in idx |-> (clay_pct[i] >= 35) /\ (clay_pct[i] < 50)]
        poor   == [i \in idx |-> clay_pct[i] >= 50]
        class1 == MaskAssign(zeros, well, 1)
        perc1  == MaskAssign(zeros, well, 12)
        class2 == MaskAssign(class1, mod, 2)
        perc2  == MaskAssign(perc1, mod, 8)
        class3 == MaskAssign(class2, imperf, 3)
        perc3  == MaskAssign(perc2, imperf, 4)
        class4 == MaskAssign(class3, poor, 4)
        perc4  == MaskAssign(perc3, poor, 3)
    IN  [drainage_class |-> class4, percolation_rate |-> perc4]

(***************************************************************************)
(* spatial_analysis: connected-component labelling (scipy.ndimage.label)   *)
(*                                                                         *)
(* label(input) is called without a structuring element, so two cells are  *)
(* neighbours when they share an edge.  The array is scanned in row-major  *)
(* order; every true cell not labelled yet starts the next label, which is *)
(* spread over the true cells reachable from it through neighbours.  The   *)
(* result is the labelled array (0 on false cells) and the label count.    *)
(***************************************************************************)
AbsDiff(a, b) == IF a >= b THEN a - b ELSE b - a

\* connectivity 1: edge-sharing cells; connectivity 2: diagonals as well
Adjacent(p, q, connectivity) ==
    IF connectivity = 1
    THEN AbsDiff(p[1], q[1]) + AbsDiff(p[2], q[2]) = 1
    ELSE p # q /\ AbsDiff(p[1], q[1]) <= 1 /\ AbsDiff(p[2], q[2]) <= 1

\* the true cells reachable from the cells of region
RECURSIVE Fill(_, _, _)
Fill(features, region, connectivity) ==
    LET grown == region \cup {q \in features : \E p \in region : Adjacent(p, q, connectivity)}
    IN  IF grown = region THEN region ELSE Fill(features, grown, connectivity)

\* position of a cell in the row-major scan
ScanIndex(p, cols) == (p[1] - 1) * cols + p[2]

RECURSIVE LabelFrom(_, _, _, _)
LabelFrom(input, labeled, n, connectivity) ==
    LET todo == {p \in DOMAIN input.data : input.data[p] /\ labeled[p] = 0}
    IN  IF todo = {}
        THEN [labeled |-> [rows |-> input.rows, cols |-> input.cols, data |-> labeled],
              n |-> n]
        ELSE LET first  == CHOOSE p \in todo :
                               \A q \in todo : ScanIndex(p, input.cols) <= ScanIndex(q, input.cols)
                 region == Fill({p \in DOMAIN input.data : input.data[p]}, {first}, connectivity)
             IN  LabelFrom(input,
                           [p \in DOMAIN labeled |-> IF p \in region THEN n + 1 ELSE labeled[p]],
                           n + 1, connectivity)

label_with_diagonals(input) ==
    LabelFrom(input, [p \in DOMAIN input.data |-> 0], 0, 2)

label(input) ==
    LabelFrom(input, [p \in DOMAIN input.data |-> 0], 0, 1)

(***************************************************************************)
(* spatial_analysis: patch statistics and fragmentation index              *)
(***************************************************************************)
\* the counts of labels 0..n-1: the background is not dropped
PatchSizes_from_background(labeled, n) ==
    [k \in 1..n |-> Cardinality({p \in DOMAIN labeled.data : labeled.data[p] = k - 1})]

\* np.bincount(labeled_array.ravel())[1:] : the cell count of labels 1..n
PatchSizes(labeled, n) ==
    [k \in 1..n |-> Cardinality({p \in DOMAIN labeled.data : labeled.data[p] = k})]

RECURSIVE SeqSum(_)
SeqSum(q) == IF q = <<>> THEN 0 ELSE Head(q) + SeqSum(Tail(q))

SeqMax(q) == CHOOSE x \in {q[i] : i \in DOMAIN q} : \A i \in DOMAIN q : q[i] <= x

SeqMin(q) == CHOOSE x \in {q[i] : i \in DOMAIN q} : \A i \in DOMAIN q : q[i] >= x

compute_fragmentation_index_min_over_max(suitability_map) ==
    LET lab         == label(suitability_map)
        n_patches   == lab.n
        patch_sizes == PatchSizes(lab.labeled, n_patches)
        max_size    == SeqMax(patch_sizes)
    IN  IF n_patches = 0
        THEN [n_patches |-> 0, mean_patch_size |-> FracZero, max_patch_size |-> 0,
              min_patch_size |-> 0, fragmentation_index |-> FracZero,
              total_suitable_cells |-> 0]
        ELSE [n_patches |-> n_patches,
              mean_patch_size |-> Frac(SeqSum(patch_sizes), n_patches),
              max_patch_size |-> max_size,
              min_patch_size |-> SeqMin(patch_sizes),
              fragmentation_index |->
                  IF max_size > 0 THEN Frac(SeqMin(patch_sizes), max_size) ELSE FracZero,
              total_suitable_cells |-> SeqSum(patch_sizes)]

compute_fragmentation_index_sum_over_max(suitability_map) ==
    LET lab         == label(suitability_map)
        n_patches   == lab.n
        patch_sizes == PatchSizes(lab.labeled, n_patches)
        max_size    == SeqMax(patch_sizes)
    IN  IF n_patches = 0
        THEN [n_patches |-> 0, mean_patch_size |-> FracZero, max_patch_size |-> 0,
              min_patch_size |-> 0, fragmentation_index |-> FracZero,
              total_suitable_cells |-> 0]
        ELSE [n_patches |-> n_patches,
              mean_patch_size |-> Frac(SeqSum(patch_sizes), n_patches),
              max_patch_size |-> max_size,
              min_patch_size |-> SeqMin(patch_sizes),
              fragmentation_index |->
                  IF max_size > 0 THEN Frac(SeqSum(patch_sizes), max_size) ELSE FracZero,
              total_suitable_cells |-> SeqSum(patch_sizes)]

compute_fragmentation_index(suitability_map) ==
    LET lab         == label(suitability_map)
        n_patches   == lab.n
        patch_sizes == PatchSizes(lab.labeled, n_patches)
        max_size    == SeqMax(patch_sizes)
    IN  IF n_patches = 0
        THEN [n_patches |-> 0, mean_patch_size |-> FracZero, max_patch_size |-> 0,
              min_patch_size |-> 0, fragmentation_index |-> FracZero,
              total_suitable_cells |-> 0]
        ELSE [n_patches |-> n_patches,
              mean_patch_size |-> Frac(SeqSum(patch_sizes), n_patches),
              max_patch_size |-> max_size,
              min_patch_size |-> SeqMin(patch_sizes),
              fragmentation_index |->
                  IF max_size > 0 THEN Frac(SeqSum(patch_sizes), n_patches * max_size)
                  ELSE FracZero,
              total_suitable_cells |-> SeqSum(patch_sizes)]

\* utils.compute_fragmentation_index: the same ratio from a list of patch
\* areas (the first component of each (area, connectivity) tuple)
utils_compute_fragmentation_index(areas) ==
    IF areas = <<>> THEN FracZero
    ELSE IF SeqMax(areas) = 0 THEN FracZero
    ELSE Frac(SeqSum(areas), Len(areas) * SeqMax(areas))

(***************************************************************************)
(* spatial_analysis: clusters above a minimum size                         *)
(*                                                                         *)
(* One row per label whose cell count reaches min_cluster_size, built in   *)
(* label order, with the 0-based bounding box of np.where.  The rows are   *)
(* then sorted by size, largest first; the order of rows of equal size is  *)
(* not fixed by the sort, so every non-increasing order is a possible      *)
(* result.  Sorting a table built from no row has no size_pixels column to *)
(* sort by and raises KeyError.                                            *)
(***************************************************************************)
SetMin(S) == CHOOSE x \in S : \A y \in S : x <= y

SetMax(S) == CHOOSE x \in S : \A y \in S : x >= y

ClusterRow(labeled, cluster_id) ==
    LET cluster_mask == {p \in DOMAIN labeled.data : labeled.data[p] = cluster_id}
        rows    == {p[1] - 1 : p \in cluster_mask}
        cols    == {p[2] - 1 : p \in cluster_mask}
        min_row == SetMin(rows)
        max_row == SetMax(rows)
        min_col == SetMin(cols)
        max_col == SetMax(cols)
    IN  [cluster_id |-> cluster_id, size_pixels |-> Cardinality(cluster_mask),
         min_row |-> min_row, max_row |-> max_row,
         min_col |-> min_col, max_col |-> max_col,
         extent_rows |-> max_row - min_row, extent_cols |-> max_col - min_col]

\* the loop over cluster_id = from .. n_clusters
RECURSIVE ClusterRows(_, _, _, _)
ClusterRows(labeled, n_clusters, min_cluster_size, from) ==
    IF from > n_clusters THEN <<>>
    ELSE LET cluster_size == Cardinality({p \in DOMAIN labeled.data : labeled.data[p] = from})
             rest == ClusterRows(labeled, n_clusters, min_cluster_size, from + 1)
         IN  IF cluster_size < min_cluster_size THEN rest
             ELSE <<ClusterRow(labeled, from)>> \o rest

\* sort_values("size_pixels", ascending=False): the possible row orders
SortedBySizeDescending(results) ==
    {[i \in DOMAIN results |-> results[f[i]]] :
        f \in {g \in Permutations(DOMAIN results) :
                  \A i, j \in DOMAIN results :
                      i < j => results[g[i]].size_pixels >= results[g[j]].size_pixels}}

\* the set of possible outcomes of one call
identify_suitability_clusters(suitability_map, min_cluster_size) ==
    LET lab     == label(suitability_map)
        results == ClusterRows(lab.labeled, lab.n, min_cluster_size, 1)
    IN  IF Len(results) = 0 THEN {Raised("KeyError")}
        ELSE {Returned(df) : df \in SortedBySizeDescending(results)}

(***************************************************************************)
(* spatial_analysis: extension cost.  3.8 is 38/10; the cost is a          *)
(* fraction, area and base cost are whole numbers.                         *)
(***************************************************************************)
base_cost_per_km2_default == 1000

estimate_extension_cost_factor_only(fragmentation_index, total_suitable_area_km2, base_cost_per_km2) ==
    LET cost_multiplier == Frac(38 * fragmentation_index[1], 10 * fragmentation_index[2])
    IN  Frac(total_suitable_area_km2 * base_cost_per_km2 * cost_multiplier[1],
             cost_multiplier[2])

estimate_extension_cost(fragmentation_index, total_suitable_area_km2, base_cost_per_km2) ==
    LET cost_multiplier == Frac(10 * fragmentation_index[2] + 38 * fragmentation_index[1],
                                10 * fragmentation_index[2])
    IN  Frac(total_suitable_area_km2 * base_cost_per_km2 * cost_multiplier[1],
             cost_multiplier[2])

(***************************************************************************)
(* spatial_analysis: comparison of two maps.  A division is guarded by the *)
(* test written before it; a ratio is the fraction japan / vietnam.        *)
(***************************************************************************)
FracDiv(a, b) == Frac(a[1] * b[2], a[2] * b[1])

FracGT0(a) == a[1] * a[2] > 0

compare_fragmentation_inverted(vietnam_map, japan_map) ==
    LET vietnam_frag == compute_fragmentation_index(vietnam_map)
        japan_frag   == compute_fragmentation_index(japan_map)
    IN  [vietnam_fragmentation_index |-> vietnam_frag.fragmentation_index,
         japan_fragmentation_index |-> japan_frag.fragmentation_index,
         fragmentation_ratio |->
             IF FracGT0(japan_frag.fragmentation_index)
             THEN FracDiv(vietnam_frag.fragmentation_index, japan_frag.fragmentation_index)
             ELSE FracZero,
         vietnam_n_patches |-> vietnam_frag.n_patches,
         japan_n_patches |-> japan_frag.n_patches,
         patch_ratio |->
             IF japan_frag.n_patches > 0
             THEN Frac(vietnam_frag.n_patches, japan_frag.n_patches)
             ELSE FracZero]

compare_fragmentation(vietnam_map, japan_map) ==
    LET vietnam_frag == compute_fragmentation_index(vietnam_map)
        japan_frag   == compute_fragmentation_index(japan_map)
    IN  [vietnam_fragmentation_index |-> vietnam_frag.fragmentation_index,
         japan_fragmentation_index |-> japan_frag.fragmentation_index,
         fragmentation_ratio |->
             IF FracGT0(vietnam_frag.fragmentation_index)
             THEN FracDiv(japan_frag.fragmentation_index, vietnam_frag.fragmentation_index)
             ELSE FracZero,
         vietnam_n_patches |-> vietnam_frag.n_patches,
         japan_n_patches |-> japan_frag.n_patches,
         patch_ratio |->
             IF vietnam_frag.n_patches > 0
             THEN Frac(japan_frag.n_patches, vietnam_frag.n_patches)
             ELSE FracZero]

(***************************************************************************)
(* water_balance: daily rainfall summed per dekad.                         *)
(*                                                                         *)
(* A date is a record [year, month, day].  The group key is the string     *)
(* "YYYY-MM-Dk"; with four-digit years and two-digit months its string     *)
(* order is the order of the triple <<year, month, k>>, which stands for   *)
(* it here.  groupby puts the groups in key order; sum adds the group's    *)
(* values and first takes the group's first date in input order.  The key  *)
(* number of day 31 is ((31 - 1) div 10) + 1 = 4.                          *)
(***************************************************************************)
DekadId(day_in_month) == ((day_in_month - 1) \div 10) + 1

DekadPeriod(date) == <<date.year, date.month, DekadId(date.day)>>

\* string order of two keys
KeyBefore(a, b) ==
    \/ a[1] < b[1]
    \/ a[1] = b[1] /\ a[2] < b[2]
    \/ a[1] = b[1] /\ a[2] = b[2] /\ a[3] < b[3]

\* the keys of a set in key order
RECURSIVE SortedKeys(_)
SortedKeys(keys) ==
    IF keys = {} THEN <<>>
    ELSE LET first == CHOOSE k \in keys : \A other \in keys \ {k} : KeyBefore(k, other)
         IN  <<first>> \o SortedKeys(keys \ {first})

\* sum of the values at the positions of a group
RECURSIVE GroupSum(_, _)
GroupSum(values, positions) ==
    IF positions = {} THEN 0
    ELSE LET i == CHOOSE x \in positions : TRUE
         IN  values[i] + GroupSum(values, positions \ {i})

aggregate_rainfall_to_dekads(dates, rainfall_daily) ==
    LET dekad_period == [i \in DOMAIN dates |-> DekadPeriod(dates[i])]
        groups       == SortedKeys({dekad_period[i] : i \in DOMAIN dates})
        members(k)   == {i \in DOMAIN dates : dekad_period[i] = groups[k]}
    IN  [dekad_dates    |-> [k \in DOMAIN groups |-> dates[SetMin(members(k))]],
         dekad_rainfall |-> [k \in DOMAIN groups |-> GroupSum(rainfall_daily, members(k))]]

(***************************************************************************)
(* biophysical_constraints: slope feasibility.                             *)
(*                                                                         *)
(* sobel(dem, axis) is the difference [-1, 0, 1] along the axis smoothed   *)
(* by [1, 2, 1] along the other axis, with the border mode "reflect": an   *)
(* index outside the grid takes the value of the border cell.  The slope   *)
(* atan(sqrt(gx^2 + gy^2) / 30) is below a threshold t of (0, 90) degrees  *)
(* exactly when (gx^2 + gy^2) / 30^2 < tan(t)^2; tan^2 is 1/3, 1, 3 at 30, *)
(* 45, 60 degrees.  A slope is never below 0 and always below 90 degrees.  *)
(***************************************************************************)
Reflect(i, n) == IF i < 1 THEN 1 ELSE IF i > n THEN n ELSE i

DemAt(dem, i, j) == dem.data[<<Reflect(i, dem.rows), Reflect(j, dem.cols)>>]

\* sobel(dem, axis=1): difference along the columns
grad_x(dem, p) ==
    LET diff(i) == DemAt(dem, i, p[2] + 1) - DemAt(dem, i, p[2] - 1)
    IN  diff(p[1] - 1) + 2 * diff(p[1]) + diff(p[1] + 1)

\* sobel(dem, axis=0): difference along the rows
grad_y(dem, p) ==
    LET diff(j) == DemAt(dem, p[1] + 1, j) - DemAt(dem, p[1] - 1, j)
    IN  diff(p[2] - 1) + 2 * diff(p[2]) + diff(p[2] + 1)

\* tan(t)^2 as a fraction, for t = 30, 45, 60 degrees
TanSquared(t) == IF t = 30 THEN Frac(1, 3) ELSE IF t = 45 THEN Frac(1, 1) ELSE Frac(3, 1)

\* degrees(arctan(sqrt(g2) / cell)) < threshold_deg
SlopeBelow(g2, cell, threshold_deg) ==
    IF threshold_deg <= 0 THEN FALSE
    ELSE IF threshold_deg >= 90 THEN TRUE
    ELSE g2 * TanSquared(threshold_deg)[2] < TanSquared(threshold_deg)[1] * cell * cell

classify_slope(dem, threshold_deg) ==
    [rows |-> dem.rows, cols |-> dem.cols,
     data |-> [p \in DOMAIN dem.data |->
                  SlopeBelow(grad_x(dem, p) * grad_x(dem, p) + grad_y(dem, p) * grad_y(dem, p),
                             30, threshold_deg)]]

(***************************************************************************)
(* utils: dekad number of a day of the year                                *)
(***************************************************************************)
compute_dekad_for_doy(day_of_year) ==
    IF ~(1 <= day_of_year /\ day_of_year <= 366) THEN Raised("ValueError")
    ELSE Returned(((day_of_year - 1) \div 10) + 1)

(***************************************************************************)
(* utils.validate_bounding_box and AWDPipeline.validate_inputs.            *)
(*                                                                         *)
(* validate_bounding_box returns its verdict; it raises nothing.           *)
(* validate_inputs calls it inside try / except ValueError and does not    *)
(* look at what it returns.  The log line written after the threshold test *)
(* takes min(thresholds), which raises ValueError for an empty list.       *)
(***************************************************************************)
validate_bounding_box(bbox) ==
    IF Len(bbox) # 4 THEN Returned(FALSE)
    ELSE LET min_lon == bbox[1]
             min_lat == bbox[2]
             max_lon == bbox[3]
             max_lat == bbox[4]
         IN  IF ~(-180 <= min_lon /\ min_lon <= 180 /\ -180 <= max_lon /\ max_lon <= 180)
                 THEN Returned(FALSE)
             ELSE IF ~(-90 <= min_lat /\ min_lat <= 90 /\ -90 <= max_lat /\ max_lat <= 90)
                 THEN Returned(FALSE)
             ELSE IF min_lon >= max_lon THEN Returned(FALSE)
             ELSE IF min_lat >= max_lat THEN Returned(FALSE)
             ELSE Returned(TRUE)

validate_inputs_end_may_equal_start(cfg, study_area) ==
    LET study_config == cfg.study_areas[study_area]
        bbox         == study_config.bounding_box
        wb_config    == cfg.water_balance
        season_start == wb_config.season_start_dekad
        season_end   == wb_config.season_end_dekad
        thresholds   == wb_config.deficit_thresholds
        bp_config    == cfg.biophysical_constraints
    IN  IF validate_bounding_box(bbox).raised THEN Returned(FALSE)
        ELSE IF ~(1 <= season_start /\ season_start <= 36 /\ 1 <= season_end /\ season_end <= 36)
            THEN Returned(FALSE)
        ELSE IF season_end < season_start THEN Returned(FALSE)
        ELSE IF ~(\A i \in DOMAIN thresholds : thresholds[i] < 0) THEN Returned(FALSE)
        ELSE IF Len(thresholds) = 0 THEN Raised("ValueError")
        ELSE IF bp_config.slope_threshold_deg < 0 \/ bp_config.slope_threshold_deg > 90
            THEN Returned(FALSE)
        ELSE Returned(TRUE)

validate_inputs(cfg, study_area) ==
    LET study_config == cfg.study_areas[study_area]
        bbox         == study_config.bounding_box
        wb_config    == cfg.water_balance
        season_start == wb_config.season_start_dekad
        season_end   == wb_config.season_end_dekad
        thresholds   == wb_config.deficit_thresholds
        bp_config    == cfg.biophysical_constraints
    IN  IF validate_bounding_box(bbox).raised THEN Returned(FALSE)
        ELSE IF ~(1 <= season_start /\ season_start <= 36 /\ 1 <= season_end /\ season_end <= 36)
            THEN Returned(FALSE)
        ELSE IF season_end <= season_start THEN Returned(FALSE)
        ELSE IF ~(\A i \in DOMAIN thresholds : thresholds[i] < 0) THEN Returned(FALSE)
        ELSE IF Len(thresholds) = 0 THEN Raised("ValueError")
        ELSE IF bp_config.slope_threshold_deg < 0 \/ bp_config.slope_threshold_deg > 90
            THEN Returned(FALSE)
        ELSE Returned(TRUE)

(***************************************************************************)
(* Input grids.  The cells of a grid follow a pattern shifted by k, so     *)
(* that neighbouring cells differ and, over the shifts of the three grids, *)
(* every combination of slope, drainage class and water-balance class      *)
(* occurs at every cell.                                                   *)
(***************************************************************************)
Shapes == (1..MaxRows) \X (1..MaxCols)

SlopeGrids ==
    {[rows |-> sh[1], cols |-> sh[2],
      data |-> [p \in Cells(sh[1], sh[2]) |-> (p[1] + p[2] + k) % 2 = 0]] :
        sh \in Shapes, k \in 0..1}

\* drainage classes 1..4
DrainageGrids ==
    {[rows |-> sh[1], cols |-> sh[2],
      data |-> [p \in Cells(sh[1], sh[2]) |-> 1 + ((p[1] + p[2] + k) % 4)]] :
        sh \in Shapes, k \in 0..3}

\* water-balance suitability classes 1..3 and 0 = nodata
WBClassGrids ==
    {[rows |-> sh[1], cols |-> sh[2],
      data |-> [p \in Cells(sh[1], sh[2]) |-> (2 * p[1] + p[2] + k) % 4]] :
        sh \in Shapes, k \in 0..3}

DrainageThresholds == 1..4

\* binary suitability maps: every boolean grid of every shape
SuitabilityMaps ==
    UNION {{[rows |-> sh[1], cols |-> sh[2], data |-> f] :
               f \in [Cells(sh[1], sh[2]) -> BOOLEAN]} : sh \in Shapes}

\* the maps of a comparison: those of at most MaxCompareCells cells
MaxCompareCells == 6

CompareMaps == {m \in SuitabilityMaps : m.rows * m.cols <= MaxCompareCells}

\* daily series: dates around the dekad and month boundaries, in any order
MaxDays == 3

Date(y, m, d) == [year |-> y, month |-> m, day |-> d]

DateVals ==
    {Date(2023, 12, 31), Date(2024, 1, 1), Date(2024, 1, 10), Date(2024, 1, 11),
     Date(2024, 1, 20), Date(2024, 1, 21), Date(2024, 1, 31), Date(2024, 2, 1)}

RainVals == {1, 2}

\* elevation grids (m): flat but for one cell; height 0 gives the flat grid
ElevVals == {0, 5, 15, 20}

DemGrids ==
    UNION {{[rows |-> sh[1], cols |-> sh[2],
             data |-> [p \in Cells(sh[1], sh[2]) |-> IF p = q THEN h ELSE 0]] :
               q \in Cells(sh[1], sh[2]), h \in ElevVals} : sh \in Shapes}

SlopeThresholds == {0, 30, 45, 60, 90}

\* the cell size (m) of the elevation grid the caller holds
CellSizes == {10, 30}

\* days of the year, with a few below 1 and above 366
DoyVals == (-2)..369

\* patch area lists for the list form of the index
MaxArea == 2

AreaLists == SeqsUpTo(0..MaxArea, MaxLen)

\* minimum cluster sizes (cells)
MaxMinClusterSize == 3

MinClusterSizes == 1..MaxMinClusterSize

\* fragmentation indices handed to the cost estimate: every tenth of [0,1]
\* and two negative ones; areas (km2) from -1; base costs ($/km2)
CostIndexVals == {Frac(k, 10) : k \in (-2)..10}

MaxAreaKm2 == 3

CostAreaVals == (-1)..MaxAreaKm2

BaseCostVals == {1, base_cost_per_km2_default}


(***************************************************************************)
(* Actions: one call of one function.                                      *)
(***************************************************************************)
Init ==
    /\ op = "none"
    /\ args = <<>>
    /\ ret = <<>>
    /\ config = <<>>
    /\ study_areas = <<>>
    /\ pc = "off"
    /\ current = 0
    /\ steps = <<>>

CallAssessDekad ==
    /\ op = "none"
    /\ UNCHANGED pipeline_vars
    /\ \E wb \in DekadWBVals, t \in Thresholds :
        /\ op' = "assess_awd_suitability_dekad"
        /\ args' = [water_balance_mm |-> wb, deficit_threshold_mm |-> t]
        /\ ret' = assess_awd_suitability_dekad(wb, t)

CallSuitabilityIndex ==
    /\ op = "none"
    /\ UNCHANGED pipeline_vars
    /\ \E series \in SeriesSet, s \in DekadVals, e \in DekadVals,
          ef \in ExcludeFirstVals, el \in ExcludeLastVals, t \in Thresholds :
        /\ op' = "compute_awd_suitability_index"
        /\ args' = [water_balance_series |-> series, season_start_dekad |-> s,
                    season_end_dekad |-> e, exclude_first |-> ef,
                    exclude_last |-> el, deficit_threshold_mm |-> t]
        /\ ret' = compute_awd_suitability_index(series, s, e, ef, el, t)

CallClassifyFromFraction ==
    /\ op = "none"
    /\ UNCHANGED pipeline_vars
    /\ \E f \in ClassifyFractions :
        /\ op' = "classify_suitability_from_fraction"
        /\ args' = [fraction_suitable |-> f]
        /\ ret' = Returned(classify_suitability_from_fraction(
                               f, high_threshold_default, moderate_threshold_default))

CallClassifyAwd ==
    /\ op = "none"
    /\ UNCHANGED pipeline_vars
    /\ \E f \in ClassifyFractions :
        /\ op' = "classify_awd_suitability"
        /\ args' = [fraction_suitable |-> f]
        /\ ret' = classify_awd_suitability(f)

CallThresholdSensitivity ==
    /\ op = "none"
    /\ UNCHANGED pipeline_vars
    /\ \E series \in SeriesSet, s \in DekadVals, e \in DekadVals,
          thresholds \in ThresholdLists :
        /\ op' = "analyze_threshold_sensitivity"
        /\ args' = [water_balance_series |-> series, season_start_dekad |-> s,
                    season_end_dekad |-> e, thresholds |-> thresholds]
        /\ ret' = analyze_threshold_sensitivity(series, s, e, thresholds)

CallBiophysicalSuitability ==
    /\ op = "none"
    /\ UNCHANGED pipeline_vars
    /\ \E slope \in SlopeGrids, drainage \in DrainageGrids, wb \in WBClassGrids,
          thr \in DrainageThresholds :
        /\ op' = "compute_biophysical_suitability"
        /\ args' = [slope_feasible |-> slope, drainage_class |-> drainage,
                    water_balance_suitability |-> wb, drainage_threshold |-> thr]
        /\ ret' = compute_biophysical_suitability(slope, drainage, wb, thr)

CallClassifyDrainage ==
    /\ op = "none"
    /\ UNCHANGED pipeline_vars
    /\ \E clay \in PctArrays, sand \in PctArrays :
        /\ op' = "classify_drainage"
        /\ args' = [clay_pct |-> clay, sand_pct |-> sand]
        /\ ret' = classify_drainage(clay, sand)

CallFragmentationIndex ==
    /\ op = "none"
    /\ UNCHANGED pipeline_vars
    /\ \E map \in SuitabilityMaps :
        /\ op' = "compute_fragmentation_index"
        /\ args' = [suitability_map |-> map]
        /\ ret' = Returned(compute_fragmentation_index(map))

CallUtilsFragmentationIndex ==
    /\ op = "none"
    /\ UNCHANGED pipeline_vars
    /\ \E areas \in AreaLists :
        /\ op' = "utils.compute_fragmentation_index"
        /\ args' = [areas |-> areas]
        /\ ret' = Returned(utils_compute_fragmentation_index(areas))

CallIdentifyClusters ==
    /\ op = "none"
    /\ UNCHANGED pipeline_vars
    /\ \E map \in SuitabilityMaps, size \in MinClusterSizes :
        \E outcome \in identify_suitability_clusters(map, size) :
            /\ op' = "identify_suitability_clusters"
            /\ args' = [suitability_map |-> map, min_cluster_size |-> size]
            /\ ret' = outcome

CallEstimateExtensionCost ==
    /\ op = "none"
    /\ UNCHANGED pipeline_vars
    /\ \E index \in CostIndexVals, area \in CostAreaVals, base \in BaseCostVals :
        /\ op' = "estimate_extension_cost"
        /\ args' = [fragmentation_index |-> index, total_suitable_area_km2 |-> area,
                    base_cost_per_km2 |-> base]
        /\ ret' = Returned(estimate_extension_cost(index, area, base))

CallCompareFragmentation ==
    /\ op = "none"
    /\ UNCHANGED pipeline_vars
    /\ \E vietnam \in CompareMaps, japan \in CompareMaps :
        /\ op' = "compare_fragmentation"
        /\ args' = [vietnam_map |-> vietnam, japan_map |-> japan]
        /\ ret' = Returned(compare_fragmentation(vietnam, japan))

CallAggregateRainfall ==
    /\ op = "none"
    /\ UNCHANGED pipeline_vars
    /\ \E n \in 0..MaxDays :
        \E dates \in [1..n -> DateVals], rainfall \in [1..n -> RainVals] :
            /\ op' = "aggregate_rainfall_to_dekads"
            /\ args' = [dates |-> dates, rainfall_daily |-> rainfall]
            /\ ret' = Returned(aggregate_rainfall_to_dekads(dates, rainfall))

\* classify_slope has no parameter for the cell size: cell_size_m records
\* the cell size of the caller's grid, which the call cannot pass on
CallClassifySlope ==
    /\ op = "none"
    /\ UNCHANGED pipeline_vars
    /\ \E dem \in DemGrids, threshold \in SlopeThresholds, cell \in CellSizes :
        /\ op' = "classify_slope"
        /\ args' = [dem |-> dem, threshold_deg |-> threshold, cell_size_m |-> cell]
        /\ ret' = Returned(classify_slope(dem, threshold))

CallDekadForDoy ==
    /\ op = "none"
    /\ UNCHANGED pipeline_vars
    /\ \E day \in DoyVals :
        /\ op' = "compute_dekad_for_doy"
        /\ args' = [day_of_year |-> day]
        /\ ret' = compute_dekad_for_doy(day)

\* the caller takes the result
Return ==
    /\ op # "none"
    /\ UNCHANGED pipeline_vars
    /\ op' = "none"
    /\ args' = <<>>
    /\ ret' = <<>>

Next ==
    \/ CallAssessDekad
    \/ CallSuitabilityIndex
    \/ CallClassifyFromFraction
    \/ CallClassifyAwd
    \/ CallThresholdSensitivity
    \/ CallBiophysicalSuitability
    \/ CallClassifyDrainage
    \/ CallFragmentationIndex
    \/ CallUtilsFragmentationIndex
    \/ CallIdentifyClusters
    \/ CallEstimateExtensionCost
    \/ CallCompareFragmentation
    \/ CallAggregateRainfall
    \/ CallClassifySlope
    \/ CallDekadForDoy
    \/ Return

Spec == Init /\ [][Next]_vars

(***************************************************************************)
(* AWDPipeline.run, one step per action.                                   *)
(*                                                                         *)
(* The configuration is what yaml.safe_load returned: the bounding box of  *)
(* each study area, the season dekads, the deficit thresholds and the      *)
(* slope threshold.  Whether water-balance processing, the sensitivity     *)
(* analysis or the saving of outputs raises depends on data, libraries and *)
(* files outside the model: either outcome is possible.  The regional      *)
(* statistics are defined for "japan" and "vietnam" only; for another      *)
(* area the variable regions is unbound and the step raises.  run catches  *)
(* Exception around steps 2 to 5 and nothing around validate_inputs.       *)
(***************************************************************************)
MaxAreas == 2

AreaNames == {"vietnam", "japan", "laos"}

ValidBBox == <<102, 8, 110, 24>>

BBoxVals ==
    {ValidBBox, <<102, 8, 110>>, <<-200, 8, 110, 24>>, <<102, -95, 110, 24>>,
     <<110, 8, 102, 24>>, <<102, 24, 110, 24>>}

SeasonPairs == {<<13, 27>>, <<27, 13>>, <<13, 13>>, <<0, 27>>, <<13, 37>>}

ThresholdConfigs == {<<>>, <<-70, -50>>, <<-70, 0>>, <<5>>}

SlopeConfigs == {-1, 0, 90, 91}

Configs ==
    {[study_areas |-> [a \in AreaNames |->
                          [bounding_box |-> IF a = "vietnam" THEN bbox ELSE ValidBBox]],
      water_balance |-> [season_start_dekad |-> season[1], season_end_dekad |-> season[2],
                         deficit_thresholds |-> thresholds],
      biophysical_constraints |-> [slope_threshold_deg |-> slope]] :
        bbox \in BBoxVals, season \in SeasonPairs,
        thresholds \in ThresholdConfigs, slope \in SlopeConfigs}

StudyAreaLists == UNION {[1..n -> AreaNames] : n \in 0..MaxAreas}

\* one step taken for an area: outcome "ok", "failed" (validate_inputs
\* returned False) or "raised"
Step(area, step, outcome) == [area |-> area, step |-> step, outcome |-> outcome]

PipelineInit ==
    /\ op = "none"
    /\ args = <<>>
    /\ ret = <<>>
    /\ config \in Configs
    /\ study_areas \in StudyAreaLists
    /\ pc = "validate"
    /\ current = 1
    /\ steps = <<>>

\* continue: on to the next study area
NextArea ==
    /\ pc' = "validate"
    /\ current' = current + 1

\* Step 1; an exception of validate_inputs leaves run
ValidateInputs ==
    /\ pc = "validate"
    /\ current <= Len(study_areas)
    /\ LET study_area == study_areas[current]
           result     == validate_inputs(config, study_area)
       IN  IF result.raised
           THEN /\ steps' = <<Step(study_area, "validate", "raised")>>
                /\ pc' = "crashed"
                /\ current' = current
           ELSE IF result.value
           THEN /\ steps' = <<Step(study_area, "validate", "ok")>>
                /\ pc' = "water_balance"
                /\ current' = current
           ELSE /\ steps' = <<Step(study_area, "validate", "failed")>>
                /\ NextArea
    /\ UNCHANGED <<op, args, ret, config, study_areas>>

\* Step 2
ProcessWaterBalance ==
    /\ pc = "water_balance"
    /\ \E raises \in BOOLEAN :
        IF raises
        THEN /\ steps' = Append(steps, Step(study_areas[current], "water_balance", "raised"))
             /\ NextArea
        ELSE /\ steps' = Append(steps, Step(study_areas[current], "water_balance", "ok"))
             /\ pc' = "sensitivity"
             /\ current' = current
    /\ UNCHANGED <<op, args, ret, config, study_areas>>

\* Step 3
AnalyzeThresholdSensitivity ==
    /\ pc = "sensitivity"
    /\ \E raises \in BOOLEAN :
        IF raises
        THEN /\ steps' = Append(steps, Step(study_areas[current], "sensitivity", "raised"))
             /\ NextArea
        ELSE /\ steps' = Append(steps, Step(study_areas[current], "sensitivity", "ok"))
             /\ pc' = "regional_statistics"
             /\ current' = current
    /\ UNCHANGED <<op, args, ret, config, study_areas>>

\* Step 4
GenerateRegionalStatistics ==
    /\ pc = "regional_statistics"
    /\ IF study_areas[current] \notin {"japan", "vietnam"}
       THEN /\ steps' = Append(steps, Step(study_areas[current], "regional_statistics", "raised"))
            /\ NextArea
       ELSE /\ steps' = Append(steps, Step(study_areas[current], "regional_statistics", "ok"))
            /\ pc' = "save_outputs"
            /\ current' = current
    /\ UNCHANGED <<op, args, ret, config, study_areas>>

\* Step 5: the last of the loop body, failed or not
SaveOutputs ==
    /\ pc = "save_outputs"
    /\ \E raises \in BOOLEAN :
        steps' = Append(steps, Step(study_areas[current], "save_outputs",
                                    IF raises THEN "raised" ELSE "ok"))
    /\ NextArea
    /\ UNCHANGED <<op, args, ret, config, study_areas>>

\* the loop is over: "Pipeline execution complete"
Complete ==
    /\ pc = "validate"
    /\ current > Len(study_areas)
    /\ pc' = "done"
    /\ UNCHANGED <<op, args, ret, config, study_areas, current, steps>>

PipelineNext ==
    \/ ValidateInputs
    \/ ProcessWaterBalance
    \/ AnalyzeThresholdSensitivity
    \/ GenerateRegionalStatistics
    \/ SaveOutputs
    \/ Complete

PipelineSpec == PipelineInit /\ [][PipelineNext]_vars

(***************************************************************************)
(* Properties of the water-balance functions.                              *)
(***************************************************************************)
IsIndexCall == op = "compute_awd_suitability_index"

\* the active window of the call in progress, as the specification names it
ActiveStart == args.season_start_dekad + args.exclude_first

ActiveEnd == args.season_end_dekad - args.exclude_last

\* the 0-based indices of [ActiveStart, ActiveEnd] that the series has
WindowIndices ==
    {i \in ActiveStart..ActiveEnd : 0 <= i /\ i < Len(args.water_balance_series)}

\* those of them whose water balance lies in [t, 0)
SuitableIndices(t) ==
    {i \in WindowIndices : /\ args.water_balance_series[i + 1] < 0
                           /\ args.water_balance_series[i + 1] >= t}

\* the fraction the same call would return for another threshold
FractionFor(t) ==
    compute_awd_suitability_index(args.water_balance_series, args.season_start_dekad,
                                  args.season_end_dekad, args.exclude_first,
                                  args.exclude_last, t).fraction

\* C1: assess_awd_suitability_dekad(wb, t) is true exactly when t <= wb < 0,
\* for every water balance wb and negative threshold t: wb = t is suitable and
\* wb = 0 is not.
C1_DekadBand ==
    op = "assess_awd_suitability_dekad" =>
        /\ ret <=> (args.water_balance_mm < 0
                    /\ args.water_balance_mm >= args.deficit_threshold_mm)
        /\ args.water_balance_mm = args.deficit_threshold_mm => ret
        /\ args.water_balance_mm = 0 => ~ret

C1_Witness ==
    /\ op = "assess_awd_suitability_dekad"
    /\ args.water_balance_mm = args.deficit_threshold_mm
    /\ ret = TRUE

\* C2 as stated: for every series and every window with activeStart <
\* activeEnd the index evaluates exactly the dekads at [activeStart,
\* activeEnd], so num_total = activeEnd - activeStart + 1.
C2_EveryIndexOfWindow ==
    (IsIndexCall /\ ActiveStart < ActiveEnd) =>
        /\ ret.num_total = ActiveEnd - ActiveStart + 1
        /\ ret.num_suitable = Cardinality(SuitableIndices(args.deficit_threshold_mm))
        /\ ret.num_total > 0 => FracEQ(ret.fraction, Frac(ret.num_suitable, ret.num_total))

\* C2 (amended): for every window with 0 <= activeStart < activeEnd the index
\* evaluates exactly the dekads of [activeStart, activeEnd] that the series
\* has (the slice is cut at the end of the series), so num_total = activeEnd -
\* activeStart + 1 when the series is longer than activeEnd, num_suitable
\* counts the evaluated dekads that pass the single-dekad test, and the
\* fraction is num_suitable / num_total (0 when nothing was evaluated).
C2_ExistingIndicesOfWindow ==
    (IsIndexCall /\ 0 <= ActiveStart /\ ActiveStart < ActiveEnd) =>
        /\ ret.num_total = Cardinality(WindowIndices)
        /\ Len(args.water_balance_series) > ActiveEnd =>
               ret.num_total = ActiveEnd - ActiveStart + 1
        /\ ret.num_suitable = Cardinality(SuitableIndices(args.deficit_threshold_mm))
        /\ ret.num_total > 0 => FracEQ(ret.fraction, Frac(ret.num_suitable, ret.num_total))
        /\ ret.num_total = 0 => ret.fraction = FracZero

C2_Witness ==
    /\ IsIndexCall
    /\ 0 <= ActiveStart
    /\ ActiveStart < ActiveEnd
    /\ Len(args.water_balance_series) > ActiveEnd
    /\ ret.num_total = ActiveEnd - ActiveStart + 1
    /\ ret.num_suitable > 0
    /\ ret.num_suitable < ret.num_total

\* C3: the index is (0.0, 0, 0), without raising, whenever activeStart >=
\* activeEnd and whenever the series is empty.
C3_DegenerateIsZero ==
    (IsIndexCall /\ (ActiveStart >= ActiveEnd \/ args.water_balance_series = <<>>)) =>
        /\ ~ret.raised
        /\ ret.fraction = FracZero
        /\ ret.num_suitable = 0
        /\ ret.num_total = 0

\* the guard decides: the window's only dekad exists and would be suitable
C3_Witness ==
    /\ IsIndexCall
    /\ ActiveStart = ActiveEnd
    /\ SuitableIndices(args.deficit_threshold_mm) # {}
    /\ ret.num_total = 0
    /\ ret.fraction = FracZero

\* C4 as stated: for thresholds t1 < t2 < 0 the fraction with t1 is at most
\* the fraction with t2.
C4_FractionGrowsWithThreshold ==
    IsIndexCall =>
        \A t2 \in Thresholds :
            args.deficit_threshold_mm < t2 => FracLE(ret.fraction, FractionFor(t2))

\* C4 (amended): for thresholds t1 < t2 < 0 the fraction with t1 is at least
\* the fraction with t2: the lower threshold gives the wider band [t, 0).
C4_FractionShrinksWithThreshold ==
    IsIndexCall =>
        \A t2 \in Thresholds :
            args.deficit_threshold_mm < t2 => FracGE(ret.fraction, FractionFor(t2))

C4_Witness ==
    /\ IsIndexCall
    /\ \E t2 \in Thresholds :
           /\ args.deficit_threshold_mm < t2
           /\ ~FracLE(ret.fraction, FractionFor(t2))

\* C5: a window of exactly one dekad (activeStart = activeEnd) whose water
\* balance is -60 gives fraction 0 for threshold -50 and fraction 1 with
\* num_total = 1 for threshold -70; the zero result with a warning is
\* returned only for a window of zero or negative length.
C5_SingleDekadWindow ==
    ( /\ IsIndexCall
      /\ ActiveStart = ActiveEnd
      /\ ActiveStart \in WindowIndices
      /\ args.water_balance_series[ActiveStart + 1] = -60 ) =>
        /\ args.deficit_threshold_mm = -50 => FracEQ(ret.fraction, Frac(0, 1))
        /\ args.deficit_threshold_mm = -70 =>
               FracEQ(ret.fraction, Frac(1, 1)) /\ ret.num_total = 1
        /\ ~ret.warned

(***************************************************************************)
(* Properties of the classifiers and of the sweep.                         *)
(***************************************************************************)
IsClassifyCall ==
    op \in {"classify_suitability_from_fraction", "classify_awd_suitability"}

\* 0 <= n/d <= 1
InUnitInterval(f) == 0 <= f[1] /\ f[1] <= f[2]

\* what the classifier of the call in progress returns for another fraction
ClassOfSameClassifier(g) ==
    IF op = "classify_awd_suitability"
    THEN classify_awd_suitability(g).value
    ELSE classify_suitability_from_fraction(g, high_threshold_default,
                                            moderate_threshold_default)

\* what the other classifier returns for the fraction of the call in progress
ClassOfOtherClassifier ==
    IF op = "classify_awd_suitability"
    THEN classify_suitability_from_fraction(args.fraction_suitable,
             high_threshold_default, moderate_threshold_default)
    ELSE classify_awd_suitability(args.fraction_suitable).value

\* C6: with the default break points both classifiers return a class in
\* {1,2,3} for a fraction in [0,1]: 3 from 0.66 up, 2 from 0.33 to below 0.66,
\* 1 otherwise (so classify(0.0)=1, classify(0.33)=2, classify(0.66)=3,
\* classify(1.0)=3); the class never decreases when the fraction grows, and
\* the two implementations agree.
C6_ClassifyStepFunction ==
    (IsClassifyCall /\ InUnitInterval(args.fraction_suitable)) =>
        LET f == args.fraction_suitable
        IN  /\ ~ret.raised
            /\ ret.value \in {1, 2, 3}
            /\ 100 * f[1] >= 66 * f[2] => ret.value = 3
            /\ (100 * f[1] >= 33 * f[2] /\ 100 * f[1] < 66 * f[2]) => ret.value = 2
            /\ 100 * f[1] < 33 * f[2] => ret.value = 1
            /\ f = Frac(0, 100) => ret.value = 1
            /\ f = Frac(33, 100) => ret.value = 2
            /\ f = Frac(66, 100) => ret.value = 3
            /\ f = Frac(100, 100) => ret.value = 3
            /\ \A g \in ClassifyFractions :
                   (InUnitInterval(g) /\ FracLE(g, f)) => ClassOfSameClassifier(g) <= ret.value
            /\ ret.value = ClassOfOtherClassifier

C6_Witness ==
    /\ op = "classify_suitability_from_fraction"
    /\ args.fraction_suitable = Frac(66, 100)
    /\ ret.value = 3

\* C7: every classifier rejects a fraction below 0 or above 1 with an
\* invalid-input error instead of returning a class.
C7_OutOfRangeRejected ==
    (IsClassifyCall /\ ~InUnitInterval(args.fraction_suitable)) => ret.raised

\* the row an independent computation for one threshold gives
IndependentRow(t) ==
    LET index == compute_awd_suitability_index(
                     args.water_balance_series, args.season_start_dekad,
                     args.season_end_dekad, 2, 1, t)
    IN  [threshold_mm        |-> t,
         fraction_suitable   |-> index.fraction,
         suitability_class   |-> classify_suitability_from_fraction(
                                     index.fraction, Frac(66, 100), Frac(33, 100)),
         num_suitable_dekads |-> index.num_suitable,
         num_total_dekads    |-> index.num_total,
         percentage_suitable |-> Frac(100 * index.fraction[1], index.fraction[2])]

\* C8: the sweep emits one row per input threshold, in input order and with
\* duplicates, and row i is what compute_awd_suitability_index (excluding the
\* first 2 and the last 1 dekads) followed by the classifier gives for
\* thresholds[i] alone, with percentage = 100 * fraction.
C8_SweepRowsIndependent ==
    op = "analyze_threshold_sensitivity" =>
        /\ Len(ret) = Len(args.thresholds)
        /\ \A i \in 1..Len(args.thresholds) : ret[i] = IndependentRow(args.thresholds[i])

\* thresholds given in descending (unsorted) order whose rows differ
C8_Witness ==
    /\ op = "analyze_threshold_sensitivity"
    /\ Len(args.thresholds) >= 2
    /\ \E i \in 1..(Len(args.thresholds) - 1) :
           /\ args.thresholds[i] > args.thresholds[i + 1]
           /\ ret[i].fraction_suitable # ret[i + 1].fraction_suitable
    /\ Len(ret) = Len(args.thresholds)

(***************************************************************************)
(* Properties of the composite feasibility.                                *)
(***************************************************************************)
IsCompositeCall == op = "compute_biophysical_suitability"

ShapeOf(A) == <<A.rows, A.cols>>

SameShapes ==
    /\ ShapeOf(args.slope_feasible) = ShapeOf(args.drainage_class)
    /\ ShapeOf(args.drainage_class) = ShapeOf(args.water_balance_suitability)

\* C9: for equally-shaped grids every cell of the composite is slope and
\* drainage <= drainageThreshold and wb >= 2; a water-balance class of 0
\* (nodata) or 1 always gives false.
C9_CompositeIsCellwiseAnd ==
    (IsCompositeCall /\ SameShapes) =>
        /\ ~ret.raised
        /\ ShapeOf(ret.value) = ShapeOf(args.slope_feasible)
        /\ \A p \in Cells(args.slope_feasible.rows, args.slope_feasible.cols) :
               /\ ret.value.data[p] <=>
                      /\ args.slope_feasible.data[p]
                      /\ args.drainage_class.data[p] <= args.drainage_threshold
                      /\ args.water_balance_suitability.data[p] >= 2
               /\ args.water_balance_suitability.data[p] \in {0, 1} => ~ret.value.data[p]

\* a grid with a feasible cell and a cell that only the water balance (class
\* 1) makes infeasible
C9_Witness ==
    /\ IsCompositeCall
    /\ SameShapes
    /\ \E p, q \in Cells(args.slope_feasible.rows, args.slope_feasible.cols) :
           /\ ret.value.data[p]
           /\ ~ret.value.data[q]
           /\ args.slope_feasible.data[q]
           /\ args.drainage_class.data[q] <= args.drainage_threshold
           /\ args.water_balance_suitability.data[q] = 1

\* C10: the composite fails with an input error whenever its three grids do
\* not all have identical dimensions, shapes that broadcast against each
\* other (1xN with MxN) included; it never returns a grid for them.
C10_MismatchedShapesRejected ==
    (IsCompositeCall /\ ~SameShapes) => ret.raised

(***************************************************************************)
(* Properties of the drainage classification.                              *)
(***************************************************************************)
IsDrainageCall == op = "classify_drainage"

\* the rules of the classification table, by class
DrainageRule(k, clay, sand) ==
    IF k = 1 THEN clay < 20 /\ sand > 60
    ELSE IF k = 2 THEN (clay >= 20 /\ clay < 35) \/ (sand >= 30 /\ sand <= 60)
    ELSE IF k = 3 THEN clay >= 35 /\ clay < 50
    ELSE clay >= 50

\* the percolation rate (mm/day) the table pairs with a class
RateOfClass(k) == IF k = 1 THEN 12 ELSE IF k = 2 THEN 8 ELSE IF k = 3 THEN 4 ELSE 3

\* C11: for every clay and sand percentage in 0..100 every cell gets exactly
\* one drainage class in {1,2,3,4}; no cell has class 0 or percolation 0.
C11_EveryCellClassified ==
    IsDrainageCall =>
        \A i \in DOMAIN args.clay_pct :
            /\ ret.drainage_class[i] \in {1, 2, 3, 4}
            /\ ret.percolation_rate[i] # 0

\* C12: the rules are a first-match-wins cascade in the order 1, 2, 3, 4: a
\* cell keeps the class and rate of the first rule that matches it, so a cell
\* with sand in [30,60] and clay >= 35 is class 2 with 8.0 mm/day.
C12_FirstMatchWins ==
    IsDrainageCall =>
        \A i \in DOMAIN args.clay_pct :
            LET clay == args.clay_pct[i]
                sand == args.sand_pct[i]
            IN  /\ \A k \in 1..4 :
                       ( /\ DrainageRule(k, clay, sand)
                         /\ \A j \in 1..(k - 1) : ~DrainageRule(j, clay, sand) ) =>
                           /\ ret.drainage_class[i] = k
                           /\ ret.percolation_rate[i] = RateOfClass(k)
                /\ (sand >= 30 /\ sand <= 60 /\ clay >= 35) =>
                       /\ ret.drainage_class[i] = 2
                       /\ ret.percolation_rate[i] = 8

(***************************************************************************)
(* Properties of the patch labelling and of the fragmentation summary.     *)
(***************************************************************************)
IsFragmentationCall == op = "compute_fragmentation_index"

\* the true cells of the map of the call in progress
TrueCells == {p \in DOMAIN args.suitability_map.data : args.suitability_map.data[p]}

\* two cells share an edge
EdgeSharing(p, q) ==
    \/ p[1] = q[1] /\ (p[2] = q[2] + 1 \/ q[2] = p[2] + 1)
    \/ p[2] = q[2] /\ (p[1] = q[1] + 1 \/ q[1] = p[1] + 1)

\* two cells touch at a corner only
CornerTouching(p, q) ==
    (p[1] = q[1] + 1 \/ q[1] = p[1] + 1) /\ (p[2] = q[2] + 1 \/ q[2] = p[2] + 1)

\* pairs joined through the cells of via (Warshall's closure)
RECURSIVE JoinedVia(_, _)
JoinedVia(R, via) ==
    IF via = {} THEN R
    ELSE LET k == CHOOSE x \in via : TRUE
         IN  JoinedVia(R \cup {<<e[1], f[2]>> : e \in {x \in R : x[2] = k},
                                                f \in {x \in R : x[1] = k}},
                       via \ {k})

\* pairs of true cells joined by a path of edge-sharing true cells
Joined ==
    JoinedVia({pq \in TrueCells \X TrueCells : pq[1] = pq[2] \/ EdgeSharing(pq[1], pq[2])},
              TrueCells)

\* the patches: the classes of a joined-relation J over the true cells
PatchesOf(J) == {{q \in TrueCells : <<p, q>> \in J} : p \in TrueCells}

\* the largest and the smallest size in a set of patches
LargestSize(Ps) == CHOOSE n \in {Cardinality(P) : P \in Ps} : \A Q \in Ps : Cardinality(Q) <= n

SmallestSize(Ps) == CHOOSE n \in {Cardinality(P) : P \in Ps} : \A Q \in Ps : Cardinality(Q) >= n

\* C13: labelling gives 0 to exactly the false cells and 1..patchCount to the
\* true cells; two true cells share a label exactly when a path of
\* edge-sharing true cells joins them, so true cells that touch only at a
\* corner and have no such path are distinct patches; every label of
\* 1..patchCount is used.
C13_LabelsAreEdgeConnectedPatches ==
    IsFragmentationCall =>
        LET lab == label(args.suitability_map)
            at  == lab.labeled.data
            J   == Joined
        IN  /\ DOMAIN at = DOMAIN args.suitability_map.data
            /\ \A p \in DOMAIN at : (at[p] = 0) <=> ~args.suitability_map.data[p]
            /\ \A p \in TrueCells : at[p] \in 1..lab.n
            /\ \A p, q \in TrueCells : (at[p] = at[q]) <=> (<<p, q>> \in J)
            /\ \A p, q \in TrueCells :
                   (CornerTouching(p, q) /\ <<p, q>> \notin J) => at[p] # at[q]
            /\ \A k \in 1..lab.n : \E p \in TrueCells : at[p] = k
            /\ ret.value.n_patches = lab.n

\* two true cells that touch at a corner and lie in different patches
C13_Witness ==
    /\ IsFragmentationCall
    /\ ret.value.n_patches >= 2
    /\ LET J == Joined
       IN  \E p, q \in TrueCells : CornerTouching(p, q) /\ <<p, q>> \notin J

\* C14: fragmentation_index = mean_patch_size / max_patch_size, the patch
\* sizes being the cell counts of the labels without the background; a grid
\* with no true cell gives, without raising, a summary whose n_patches, mean,
\* max, min, fragmentation_index and total_suitable_cells are all 0.  The
\* list form of utils gives the same ratio of its areas, 0 for no patch.
C14_IndexIsMeanOverMax ==
    /\ IsFragmentationCall =>
        /\ ~ret.raised
        /\ TrueCells = {} =>
               /\ ret.value.n_patches = 0
               /\ ret.value.mean_patch_size[1] = 0
               /\ ret.value.max_patch_size = 0
               /\ ret.value.min_patch_size = 0
               /\ ret.value.fragmentation_index[1] = 0
               /\ ret.value.total_suitable_cells = 0
        /\ TrueCells # {} =>
               LET Ps == PatchesOf(Joined)
               IN  /\ ret.value.n_patches = Cardinality(Ps)
                   /\ ret.value.max_patch_size = LargestSize(Ps)
                   /\ ret.value.min_patch_size = SmallestSize(Ps)
                   /\ FracEQ(ret.value.mean_patch_size,
                             Frac(Cardinality(TrueCells), Cardinality(Ps)))
                   /\ ret.value.fragmentation_index[1] * ret.value.mean_patch_size[2]
                          * ret.value.max_patch_size
                        = ret.value.mean_patch_size[1] * ret.value.fragmentation_index[2]
    /\ op = "utils.compute_fragmentation_index" =>
        /\ ~ret.raised
        /\ (args.areas = <<>> \/ \A i \in DOMAIN args.areas : args.areas[i] = 0) =>
               ret.value[1] = 0
        /\ (\E i \in DOMAIN args.areas : args.areas[i] > 0) =>
               \E i \in DOMAIN args.areas :
                   /\ \A j \in DOMAIN args.areas : args.areas[j] <= args.areas[i]
                   /\ ret.value[1] * Len(args.areas) * args.areas[i]
                        = SeqSum(args.areas) * ret.value[2]

\* patches of different sizes
C14_Witness ==
    /\ IsFragmentationCall
    /\ ret.value.n_patches >= 2
    /\ ret.value.min_patch_size < ret.value.max_patch_size
    /\ ~FracGE(ret.value.fragmentation_index, Frac(1, 1))

\* C15: with n_patches = N >= 1 the index lies in [0,1]; min_patch_size >= 1,
\* min <= mean <= max, total_suitable_cells is the number of true cells and
\* equals N * mean, and 1/N <= fragmentation_index <= 1.
C15_IndexBounds ==
    (IsFragmentationCall /\ ret.value.n_patches >= 1) =>
        LET v == ret.value
        IN  /\ FracGE(v.fragmentation_index, Frac(0, 1))
            /\ FracLE(v.fragmentation_index, Frac(1, 1))
            /\ v.min_patch_size >= 1
            /\ FracLE(Frac(v.min_patch_size, 1), v.mean_patch_size)
            /\ FracLE(v.mean_patch_size, Frac(v.max_patch_size, 1))
            /\ v.total_suitable_cells = Cardinality(TrueCells)
            /\ FracEQ(Frac(v.total_suitable_cells, v.n_patches), v.mean_patch_size)
            /\ FracGE(v.fragmentation_index, Frac(1, v.n_patches))

\* patches of different sizes: the index lies strictly between 1/N and 1
C15_Witness ==
    /\ IsFragmentationCall
    /\ ret.value.n_patches >= 2
    /\ ret.value.min_patch_size < ret.value.max_patch_size
    /\ FracGE(ret.value.fragmentation_index, Frac(1, ret.value.n_patches))
    /\ ~FracEQ(ret.value.fragmentation_index, Frac(1, ret.value.n_patches))

\* every patch of the map has the same number of cells
AllPatchesSameSize ==
    LET Ps == PatchesOf(Joined)
    IN  \A P, Q \in Ps : Cardinality(P) = Cardinality(Q)

\* C16 as stated: when all patches have the same size the index is
\* 1 / patchCount.
C16_EqualPatchesGiveOneOverCount ==
    (IsFragmentationCall /\ TrueCells # {} /\ AllPatchesSameSize) =>
        FracEQ(ret.value.fragmentation_index, Frac(1, ret.value.n_patches))

\* C16 (amended): when all patches have the same size the index is 1 (mean =
\* max), whatever the number of patches; it is 1 / patchCount only for one
\* patch.
C16_EqualPatchesGiveOne ==
    (IsFragmentationCall /\ TrueCells # {} /\ AllPatchesSameSize) =>
        /\ FracEQ(ret.value.fragmentation_index, Frac(1, 1))
        /\ FracEQ(ret.value.fragmentation_index, Frac(1, ret.value.n_patches))
               <=> ret.value.n_patches = 1

\* several patches of one size, larger than a cell
C16_Witness ==
    /\ IsFragmentationCall
    /\ ret.value.n_patches >= 2
    /\ ret.value.min_patch_size >= 2
    /\ AllPatchesSameSize
    /\ FracEQ(ret.value.fragmentation_index, Frac(1, 1))

\* the true cells are one region: a path joins every two of them
SingleRegion ==
    /\ TrueCells # {}
    /\ LET J == Joined IN \A p, q \in TrueCells : <<p, q>> \in J

IsClusterCall == op = "identify_suitability_clusters"

\* the patches of the map that reach the minimum size
KeptPatches == {P \in PatchesOf(Joined) : Cardinality(P) >= args.min_cluster_size}

\* the cells a row of the table stands for: those of the patch with its label
CellsOfRow(row) ==
    LET at == label(args.suitability_map).labeled.data
    IN  {p \in TrueCells : at[p] = row.cluster_id}

\* C18: the table has exactly one row per connected component of size >=
\* minClusterSize (a component of exactly that size is kept, a smaller one
\* gives no row), the rows are in non-increasing order of size, ids are
\* unique, the bounding box is the min/max row and column of the component's
\* cells and the extents are max - min per axis.
C18_OneRowPerKeptCluster ==
    IsClusterCall =>
        /\ ~ret.raised
        /\ LET df   == ret.value
               Kept == KeptPatches
           IN  /\ Len(df) = Cardinality(Kept)
               /\ {CellsOfRow(df[i]) : i \in DOMAIN df} = Kept
               /\ \A i, j \in DOMAIN df : i < j => df[i].size_pixels >= df[j].size_pixels
               /\ \A i, j \in DOMAIN df : i # j => df[i].cluster_id # df[j].cluster_id
               /\ \A i \in DOMAIN df :
                      LET P == CellsOfRow(df[i])
                      IN  /\ df[i].size_pixels = Cardinality(P)
                          /\ \A p \in P : /\ df[i].min_row <= p[1] - 1
                                          /\ p[1] - 1 <= df[i].max_row
                                          /\ df[i].min_col <= p[2] - 1
                                          /\ p[2] - 1 <= df[i].max_col
                          /\ \E p \in P : p[1] - 1 = df[i].min_row
                          /\ \E p \in P : p[1] - 1 = df[i].max_row
                          /\ \E p \in P : p[2] - 1 = df[i].min_col
                          /\ \E p \in P : p[2] - 1 = df[i].max_col
                          /\ df[i].extent_rows = df[i].max_row - df[i].min_row
                          /\ df[i].extent_cols = df[i].max_col - df[i].min_col

\* C19: when no component reaches minClusterSize, the all-false grid
\* included, the result is an empty table and nothing is raised.
C19_NoClusterGivesEmptyTable ==
    (IsClusterCall /\ KeptPatches = {}) =>
        /\ ~ret.raised
        /\ Len(ret.value) = 0

(***************************************************************************)
(* Properties of the extension cost.                                       *)
(***************************************************************************)
IsCostCall == op = "estimate_extension_cost"

\* the cost of the call in progress with another index or another area
CostFor(index, area) == estimate_extension_cost(index, area, args.base_cost_per_km2)

FracLT(a, b) == a[1] * b[2] < b[1] * a[2]

\* C20: the cost is area * baseCost * (1 + 3.8 * index); for index = 0 it is
\* baseCost * area exactly; for baseCost > 0 it grows with the index at a
\* fixed area > 0 and with the area at a fixed index of [0,1]; it is >= 0 for
\* every index of [0,1] and area >= 0.
C20_CostFormulaAndMonotone ==
    IsCostCall =>
        LET index == args.fragmentation_index
            area  == args.total_suitable_area_km2
            base  == args.base_cost_per_km2
            cost  == ret.value
        IN  /\ ~ret.raised
            /\ 10 * index[2] * cost[1]
                   = area * base * (10 * index[2] + 38 * index[1]) * cost[2]
            /\ index[1] = 0 => cost[1] = base * area * cost[2]
            /\ (InUnitInterval(index) /\ area > 0) =>
                   \A other \in CostIndexVals :
                       (InUnitInterval(other) /\ FracLT(index, other)) =>
                           FracLT(cost, CostFor(other, area))
            /\ (InUnitInterval(index) /\ area >= 0) =>
                   /\ \A other \in CostAreaVals :
                          other > area => FracLT(cost, CostFor(index, other))
                   /\ FracGE(cost, Frac(0, 1))

\* a fragmented area costs more than the base cost of its area
C20_Witness ==
    /\ IsCostCall
    /\ InUnitInterval(args.fragmentation_index)
    /\ args.fragmentation_index[1] > 0
    /\ args.total_suitable_area_km2 > 0
    /\ FracLT(Frac(args.base_cost_per_km2 * args.total_suitable_area_km2, 1), ret.value)

\* C21: with fragmentation index 1 the multiplier is 3.8: the cost equals
\* 3.8 * baseCost * area.
C21_IndexOneGivesMultiplier38 ==
    (IsCostCall /\ FracEQ(args.fragmentation_index, Frac(1, 1))) =>
        /\ ~ret.raised
        /\ FracEQ(ret.value,
                  Frac(38 * args.base_cost_per_km2 * args.total_suitable_area_km2, 10))

\* C22: a negative suitable area or a negative fragmentation index is
\* rejected with an invalid-input error and no cost is returned.
C22_NegativeInputRejected ==
    (IsCostCall /\ (\/ args.total_suitable_area_km2 < 0
                    \/ FracLT(args.fragmentation_index, Frac(0, 1)))) =>
        ret.raised

(***************************************************************************)
(* Properties of the comparison of two maps.                               *)
(***************************************************************************)
IsCompareCall == op = "compare_fragmentation"

NoTrueCell(map) == \A p \in DOMAIN map.data : ~map.data[p]

\* C23: compare_fragmentation(A, B) does not raise; fragmentation_ratio is
\* B.index / A.index and patch_ratio is B.n_patches / A.n_patches, each 0
\* when its divisor is 0; the two divisors are 0 together, exactly when A has
\* no true cell.
C23_GuardedRatios ==
    IsCompareCall =>
        /\ ~ret.raised
        /\ LET A == compute_fragmentation_index(args.vietnam_map)
               B == compute_fragmentation_index(args.japan_map)
               v == ret.value
               indexIsZero == A.fragmentation_index[1] = 0
               countIsZero == A.n_patches = 0
           IN  /\ indexIsZero <=> NoTrueCell(args.vietnam_map)
               /\ countIsZero <=> NoTrueCell(args.vietnam_map)
               /\ indexIsZero => v.fragmentation_ratio[1] = 0
               /\ countIsZero => v.patch_ratio[1] = 0
               /\ ~indexIsZero =>
                      /\ v.fragmentation_ratio[2] # 0
                      /\ v.fragmentation_ratio[1] * A.fragmentation_index[1]
                             * B.fragmentation_index[2]
                           = B.fragmentation_index[1] * A.fragmentation_index[2]
                             * v.fragmentation_ratio[2]
               /\ ~countIsZero =>
                      /\ v.patch_ratio[2] # 0
                      /\ v.patch_ratio[1] * A.n_patches = B.n_patches * v.patch_ratio[2]

\* both maps have a true cell and the two ratios differ from 1
C23_Witness ==
    /\ IsCompareCall
    /\ ~NoTrueCell(args.vietnam_map)
    /\ ~NoTrueCell(args.japan_map)
    /\ ret.value.patch_ratio[1] > ret.value.patch_ratio[2]
    /\ FracLT(ret.value.fragmentation_ratio, Frac(1, 1))

(***************************************************************************)
(* Properties of the dekad aggregation.                                    *)
(***************************************************************************)
IsAggregateCall == op = "aggregate_rainfall_to_dekads"

\* the bucket of a date: days 1..10, 11..20 and 21..31 of its month
BucketOf(date) ==
    <<date.year, date.month, IF date.day <= 10 THEN 1 ELSE IF date.day <= 20 THEN 2 ELSE 3>>

\* the positions of the input whose date falls in bucket b
DaysOf(b) == {i \in DOMAIN args.dates : BucketOf(args.dates[i]) = b}

Chronological(a, b) ==
    a[1] * 10000 + a[2] * 100 + a[3] < b[1] * 10000 + b[2] * 100 + b[3]

\* sum of a sequence of numbers, front to back
RECURSIVE Total(_)
Total(q) == IF Len(q) = 0 THEN 0 ELSE q[1] + Total([i \in 1..(Len(q) - 1) |-> q[i + 1]])

\* C24: each day goes to the bucket (year, month, 1|2|3) of its day of
\* month (21..31 all in bucket 3); the output has one entry per populated
\* bucket, in chronological bucket order, whose value is the sum of the
\* bucket's daily values and whose date is the bucket's first input date; the
\* outputs sum to the sum of the inputs and an empty input gives an empty
\* output.
C24_DekadBuckets ==
    IsAggregateCall =>
        /\ ~ret.raised
        /\ LET out_dates == ret.value.dekad_dates
               out_rain  == ret.value.dekad_rainfall
               populated == {BucketOf(args.dates[i]) : i \in DOMAIN args.dates}
           IN  /\ Len(out_dates) = Cardinality(populated)
               /\ Len(out_rain) = Cardinality(populated)
               /\ {BucketOf(out_dates[k]) : k \in DOMAIN out_dates} = populated
               /\ \A k, l \in DOMAIN out_dates :
                      k < l => Chronological(BucketOf(out_dates[k]), BucketOf(out_dates[l]))
               /\ \A k \in DOMAIN out_dates :
                      LET days == DaysOf(BucketOf(out_dates[k]))
                      IN  /\ \E i \in days :
                                 /\ out_dates[k] = args.dates[i]
                                 /\ \A j \in days : i <= j
                          /\ out_rain[k] = Total([i \in 1..Len(args.rainfall_daily) |->
                                 IF i \in days THEN args.rainfall_daily[i] ELSE 0])
               /\ Total(out_rain) = Total(args.rainfall_daily)
               /\ Len(args.dates) = 0 => Len(out_dates) = 0 /\ Len(out_rain) = 0

(***************************************************************************)
(* Properties of the slope feasibility.                                    *)
(***************************************************************************)
IsSlopeCall == op = "classify_slope"

\* squared gradient magnitude of the call's grid at cell p
GradientSquared(p) ==
    grad_x(args.dem, p) * grad_x(args.dem, p) + grad_y(args.dem, p) * grad_y(args.dem, p)

\* C25: a cell is feasible iff atan(gradientMagnitude / cellSizeMeters) in
\* degrees is strictly below the threshold, cellSizeMeters being the cell
\* size the caller supplies; a slope equal to the threshold is infeasible and
\* a flat grid is feasible everywhere for a threshold > 0.
C25_SlopeUsesCallerCellSize ==
    IsSlopeCall =>
        /\ ~ret.raised
        /\ \A p \in DOMAIN args.dem.data :
               ret.value.data[p]
                   <=> SlopeBelow(GradientSquared(p), args.cell_size_m, args.threshold_deg)

(***************************************************************************)
(* Properties of the dekad number of a day.                                *)
(***************************************************************************)
IsDoyCall == op = "compute_dekad_for_doy"

\* C27: for every day_of_year in 1..366 the result is a dekad number in
\* 1..36, and for every day_of_year outside 1..366 ValueError is raised.
C27_DekadNumberInRange ==
    IsDoyCall =>
        IF args.day_of_year \in 1..366
        THEN ~ret.raised /\ ret.value \in 1..36
        ELSE ret.raised /\ ret.error = "ValueError"

\* C30: a cell matching the class-1 rule (clay < 20 and sand > 60) ends with
\* class 1 and 12.0 mm/day, and in every cell the percolation rate is the one
\* paired with the cell's final class: 1 -> 12.0, 2 -> 8.0, 3 -> 4.0, 4 -> 3.0.
C30_ClassOneKeptAndRatesPaired ==
    IsDrainageCall =>
        \A i \in DOMAIN args.clay_pct :
            /\ DrainageRule(1, args.clay_pct[i], args.sand_pct[i]) =>
                   /\ ret.drainage_class[i] = 1
                   /\ ret.percolation_rate[i] = 12
            /\ \E k \in 1..4 :
                   /\ ret.drainage_class[i] = k
                   /\ ret.percolation_rate[i] = RateOfClass(k)

(***************************************************************************)
(* Properties of the pipeline run (PipelineSpec).                          *)
(***************************************************************************)
LaterSteps == {"water_balance", "sensitivity", "regional_statistics", "save_outputs"}

\* the configuration is one the validation has to refuse
InvalidConfig ==
    LET wb == config.water_balance
    IN  \/ wb.season_end_dekad <= wb.season_start_dekad
        \/ wb.season_start_dekad \notin 1..36
        \/ wb.season_end_dekad \notin 1..36
        \/ \E i \in DOMAIN wb.deficit_thresholds : wb.deficit_thresholds[i] >= 0
        \/ config.biophysical_constraints.slope_threshold_deg < 0
        \/ config.biophysical_constraints.slope_threshold_deg > 90

\* C26: with season end <= season start, a season dekad outside 1..36, a
\* non-negative deficit threshold or a slope threshold outside 0..90, the
\* validation of a study area does not pass and no later step (water
\* balance, sensitivity, regional statistics, save) is executed for it.
C26_InvalidConfigStopsAtValidation ==
    InvalidConfig =>
        /\ pc \notin LaterSteps
        /\ \A i \in DOMAIN steps :
               /\ steps[i].step = "validate"
               /\ steps[i].outcome # "ok"

\* an invalid configuration whose first area was refused; the run is at the
\* second area
C26_Witness ==
    /\ InvalidConfig
    /\ pc = "validate"
    /\ current = 2
    /\ Len(study_areas) >= 2
    /\ steps = <<Step(study_areas[1], "validate", "failed")>>

\* a bounding box as the configuration must give it
BoxIsValid(bbox) ==
    /\ Len(bbox) = 4
    /\ bbox[1] \in (-180)..180 /\ bbox[3] \in (-180)..180
    /\ bbox[2] \in (-90)..90 /\ bbox[4] \in (-90)..90
    /\ bbox[1] < bbox[3]
    /\ bbox[2] < bbox[4]

BoxOf(area) == config.study_areas[area].bounding_box

\* C28: a study area whose bounding box is invalid (wrong length, longitude
\* or latitude out of range, min >= max) fails validate_inputs and is
\* skipped; validate_inputs returns True only if validate_bounding_box
\* accepted the box.
C28_InvalidBoxFailsValidation ==
    pc # "off" =>
        \A i \in DOMAIN steps :
            /\ ~BoxIsValid(BoxOf(steps[i].area)) =>
                   /\ steps[i].step = "validate"
                   /\ steps[i].outcome = "failed"
            /\ (steps[i].step = "validate" /\ steps[i].outcome = "ok") =>
                   /\ ~validate_bounding_box(BoxOf(steps[i].area)).raised
                   /\ validate_bounding_box(BoxOf(steps[i].area)).value

StepOrder == <<"validate", "water_balance", "sensitivity", "regional_statistics", "save_outputs">>

\* C29: for each study area the steps come in the order validation, water
\* balance, sensitivity, regional statistics, save; a step is taken only if
\* every earlier step of that area succeeded, so outputs are saved only
\* after four successes; a failure ends that area only: the run goes on to
\* the next area and always reaches its end, never left by an exception.
C29_StepsInOrderAndRunCompletes ==
    pc # "off" =>
        /\ pc # "crashed"
        /\ Len(steps) <= Len(StepOrder)
        /\ \A i \in DOMAIN steps :
               /\ steps[i].step = StepOrder[i]
               /\ steps[i].area = steps[1].area
               /\ i < Len(steps) => steps[i].outcome = "ok"
        /\ current <= Len(study_areas) + 1
        /\ pc = "done" => current = Len(study_areas) + 1
        /\ (pc \in LaterSteps) =>
               /\ steps # <<>>
               /\ steps[Len(steps)].outcome = "ok"
               /\ steps[Len(steps)].area = study_areas[current]

====
